---- MODULE Spec2Model ----
(***************************************************************************)
(* Model of client/src/pages/Profile.tsx: the Profile page component.      *)
(*                                                                         *)
(* State is the component's React state (profile, isEditing), the session  *)
(* read from useAuth, the useQuery result for ['/api/users', userId], the  *)
(* useMutation observer with the PUT requests in flight, and the           *)
(* localStorage item 'guest_profile'.  Every action is one event (a click, *)
(* a keystroke, a response, a session change, a mount) together with the   *)
(* render and the two effects that follow it.  The guest effect stands     *)
(* after the loading return of the render, so a render that returns the    *)
(* loading screen does not reach it; it runs in the first later render     *)
(* that does and finds isGuestMode changed.                                *)
(*                                                                         *)
(* JavaScript values are tagged tuples; a JSON text is a token sequence.   *)
(* An object over the five profile keys is a function Fields -> value in   *)
(* which Absent marks a key the object does not have.                      *)
(***************************************************************************)
EXTENDS FiniteSets, Integers, Sequences, TLC

VARIABLES
    isAuthenticated,  \* useAuth().isAuthenticated
    userId,           \* currentUser?.id, NoId when undefined
    authLoading,      \* useAuth().loading
    profile,          \* useState profile
    isEditing,        \* useState isEditing
    cache,            \* query data held for the key ['/api/users', TheUserId]
    getInFlight,      \* a GET for that key is outstanding
    isPending,        \* updateProfileMutation.isPending
    puts,             \* mutations of this mount in flight, oldest first
    storage,          \* localStorage item 'guest_profile'
    guestDep,         \* isGuestMode recorded by the last run of the guest effect
    lastOp,           \* history: the event of the last step
    toast,            \* history: the notification emitted by the last step
    netLog,           \* history: the HTTP requests issued by the last step
    wroteLocal,       \* history: the last step called localStorage.setItem successfully
    guestLoad,        \* history: what the guest effect did in the last step
    preGuest,         \* history: profile just before the guest effect of the last step
    prior,            \* history: profile before the last update or remote-load step
    fromLocal,        \* history: keys whose value was put in profile by the guest effect
    saved,            \* history: the fields of the last successful handleGuestSave
    reopened          \* history: Editing was entered while a mutation was pending

vars == <<isAuthenticated, userId, authLoading, profile, isEditing, cache,
          getInFlight, isPending, puts, storage, guestDep, lastOp, toast,
          netLog, wroteLocal, guestLoad, preGuest, prior, fromLocal, saved,
          reopened>>

(***************************************************************************)
(* Bounds                                                                  *)
(***************************************************************************)
MaxPuts == 2        \* mutations of one mount in flight
NumInputs == 1      \* how many of the keystroke inputs of InputPool are used

(***************************************************************************)
(* JavaScript values                                                       *)
(***************************************************************************)
Str(s) == <<"string", s>>
Null == <<"null">>
Absent == <<"absent">>
Empty == Str("")

FieldSeq == <<"username", "name", "phone", "email", "address">>
Fields == {FieldSeq[i] : i \in 1..Len(FieldSeq)}

Truthy(v) == v \notin {Absent, Null, Empty}

Obj(name, phone, email, address) ==
    [k \in Fields |-> CASE k = "name" -> name
                        [] k = "phone" -> phone
                        [] k = "email" -> email
                        [] k = "address" -> address
                        [] OTHER -> Absent]

NoKeys == [k \in Fields |-> Absent]

\* useState initial value
DefaultProfile == [k \in Fields |-> Empty]

NoId == "none"
TheUserId == "42"

\* useQuery data: undefined, null, or an object
Undefined == [kind |-> "undefined", obj |-> NoKeys]
NullData == [kind |-> "null", obj |-> NoKeys]
Record(o) == [kind |-> "object", obj |-> o]

\* what GET /api/users/42 may return: a record with a null, an empty and a
\* missing field, or nothing
RemoteData ==
    { Record(Obj(Str("Omar"), Str("0500000000"), Null, Empty)),
      NullData }

\* what the user types, and into which input
InputPool == << <<"name", "Sara">>, <<"name", "Noor">>,
                <<"phone", "0555555555">> >>
Inputs == {InputPool[i] : i \in 1..NumInputs}

(***************************************************************************)
(* JSON                                                                    *)
(***************************************************************************)
LBrace == <<"{">>
RBrace == <<"}">>
Key(k) == <<"key", k>>

RECURSIVE Members(_, _)
Members(o, i) ==
    IF i > Len(FieldSeq) THEN <<>>
    ELSE (IF o[FieldSeq[i]] = Absent THEN <<>>
          ELSE <<Key(FieldSeq[i]), o[FieldSeq[i]]>>) \o Members(o, i + 1)

JSONStringifyDropsAddress(o) ==
    <<LBrace>> \o Members([o EXCEPT !["address"] = Absent], 1) \o <<RBrace>>

\* JSON.stringify of an object literal with the five keys
JSONStringify(o) == <<LBrace>> \o Members(o, 1) \o <<RBrace>>

IsValue(t) == t = Null \/ (Len(t) = 2 /\ t[1] = "string")
IsKey(t) == Len(t) = 2 /\ t[1] = "key"

RECURSIVE WellFormedMembers(_)
WellFormedMembers(ts) ==
    IF ts = <<>> THEN TRUE
    ELSE /\ Len(ts) >= 2
         /\ IsKey(ts[1])
         /\ IsValue(ts[2])
         /\ WellFormedMembers(SubSeq(ts, 3, Len(ts)))

RECURSIVE ReadMembers(_, _)
ReadMembers(ts, acc) ==
    IF ts = <<>> THEN acc
    ELSE ReadMembers(SubSeq(ts, 3, Len(ts)),
                     IF ts[1][2] \in Fields
                     THEN [acc EXCEPT ![ts[1][2]] = ts[2]] ELSE acc)

ParseError == [ok |-> FALSE, obj |-> NoKeys]

\* JSON.parse; ok = FALSE when it throws
JSONParse(text) ==
    IF text = <<Null>> THEN [ok |-> TRUE, obj |-> NoKeys]
    ELSE IF /\ Len(text) >= 2
            /\ text[1] = LBrace
            /\ text[Len(text)] = RBrace
            /\ WellFormedMembers(SubSeq(text, 2, Len(text) - 1))
         THEN [ok |-> TRUE,
               obj |-> ReadMembers(SubSeq(text, 2, Len(text) - 1), NoKeys)]
         ELSE ParseError

NothingSaved == [some |-> FALSE, fields |-> DefaultProfile]

\* localStorage.getItem: null when the item is absent
NoItem == [present |-> FALSE, text |-> <<>>]
Item(text) == [present |-> TRUE, text |-> text]
ItemTruthy(it) == it.present /\ it.text # <<>>

InitialItems ==
    { NoItem,
      Item(<<LBrace, Key("name")>>),
      Item(<<LBrace, Key("name"), Str("Lina"), RBrace>>) }

(***************************************************************************)
(* Derived render values                                                   *)
(***************************************************************************)
IsGuestModeIgnoresLogin(a, u) == u = NoId

\* const isGuestMode = !isAuthenticated || !userId
IsGuestMode(a, u) == ~a \/ u = NoId

isGuestMode == IsGuestMode(isAuthenticated, userId)

\* useQuery option enabled: !!userId && isAuthenticated
QueryEnabled(a, u) == u # NoId /\ a

\* data of the query whose key is ['/api/users', userId]
UserOf(u, c) == IF u = TheUserId THEN c ELSE Undefined

user == UserOf(userId, cache)

\* useQuery isLoading: fetching with no data yet
IsLoading(u, c, g) == u = TheUserId /\ g /\ c = Undefined

isLoading == IsLoading(userId, cache, getInFlight)

\* if (authLoading || isLoading) return <loading screen>
ShowsLoading(l, u, c, g) == l \/ IsLoading(u, c, g)

showsLoading == ShowsLoading(authLoading, userId, cache, getInFlight)

SaveAlwaysEnabled(guest, pending) == FALSE

\* disabled={!isGuestMode && updateProfileMutation.isPending}
SaveDisabled(guest, pending) == ~guest /\ pending

saveDisabled == SaveDisabled(isGuestMode, isPending)

(***************************************************************************)
(* Effects                                                                 *)
(***************************************************************************)
FromUserKeepsNull(o) == [k \in Fields |-> IF o[k] # Absent THEN o[k] ELSE Empty]

\* setProfile({ username: user.username || '', ... })
FromUser(o) == [k \in Fields |-> IF Truthy(o[k]) THEN o[k] ELSE Empty]

UserEffectOnlyWhenViewing(p, data, editing) ==
    IF data.kind = "object" /\ ~editing THEN FromUser(data.obj) ELSE p

\* useEffect(() => { if (user) setProfile(...) }, [user])
UserEffect(p, data, editing) ==
    IF data.kind = "object" THEN FromUser(data.obj) ELSE p

\* { ...prev, ...parsedProfile }
Merge(prev, parsed) ==
    [k \in Fields |-> IF parsed[k] # Absent THEN parsed[k] ELSE prev[k]]

GuestLoadResetsOnError(p, it) ==
    IF ~ItemTruthy(it) THEN [outcome |-> "absent", profile |-> p, keys |-> {}]
    ELSE IF ~JSONParse(it.text).ok
         THEN [outcome |-> "malformed", profile |-> DefaultProfile, keys |-> {}]
         ELSE [outcome |-> "merged",
               profile |-> Merge(p, JSONParse(it.text).obj),
               keys |-> {k \in Fields : JSONParse(it.text).obj[k] # Absent}]

\* body of the guest effect when isGuestMode holds
GuestLoad(p, it) ==
    IF ~ItemTruthy(it) THEN [outcome |-> "absent", profile |-> p, keys |-> {}]
    ELSE IF ~JSONParse(it.text).ok
         THEN [outcome |-> "malformed", profile |-> p, keys |-> {}]
         ELSE [outcome |-> "merged",
               profile |-> Merge(p, JSONParse(it.text).obj),
               keys |-> {k \in Fields : JSONParse(it.text).obj[k] # Absent}]

DepOf(guest) == IF guest THEN "guest" ELSE "member"

\* The render that follows an event, and its effects: the [user] effect when
\* user changed, then, if the render got past the loading return, the
\* [isGuestMode] effect when isGuestMode differs from its last recorded value.
Commit(p0, fl0, userRan, dep) ==
    LET data == UserOf(userId', cache')
        p1 == IF userRan THEN UserEffect(p0, data, isEditing') ELSE p0
        fl1 == IF userRan /\ data.kind = "object" THEN {} ELSE fl0
        reached == ~ShowsLoading(authLoading', userId', cache', getInFlight')
        guest == IsGuestMode(isAuthenticated', userId')
        runs == reached /\ dep # DepOf(guest)
        g == GuestLoad(p1, storage')
    IN  /\ guestDep' = IF reached THEN DepOf(guest) ELSE dep
        /\ preGuest' = p1
        /\ IF runs /\ guest
           THEN /\ profile' = g.profile
                /\ guestLoad' = g.outcome
                /\ fromLocal' = fl1 \cup g.keys
           ELSE /\ profile' = p1
                /\ guestLoad' = "none"
                /\ fromLocal' = fl1

Quiet == toast' = "none" /\ netLog' = <<>> /\ wroteLocal' = FALSE

\* reopened lasts while the editor stays open and the mutation pending
StillReopened == reopened' = (reopened /\ isEditing' /\ isPending')

(***************************************************************************)
(* Initial state: the component has just mounted                           *)
(***************************************************************************)
Init ==
    /\ isAuthenticated \in BOOLEAN
    /\ userId \in {NoId, TheUserId}
    /\ authLoading \in BOOLEAN
    /\ cache = Undefined
    /\ getInFlight = QueryEnabled(isAuthenticated, userId)
    /\ isEditing = FALSE
    /\ isPending = FALSE
    /\ puts = <<>>
    /\ storage \in InitialItems
    /\ LET reached == ~ShowsLoading(authLoading, userId, cache, getInFlight)
           guest == IsGuestMode(isAuthenticated, userId)
           g == GuestLoad(DefaultProfile, storage)
       IN  /\ guestDep = IF reached THEN DepOf(guest) ELSE "none"
           /\ profile = IF reached /\ guest THEN g.profile ELSE DefaultProfile
           /\ guestLoad = IF reached /\ guest THEN g.outcome ELSE "none"
           /\ fromLocal = IF reached /\ guest THEN g.keys ELSE {}
    /\ preGuest = DefaultProfile
    /\ prior = profile
    /\ lastOp = "mount"
    /\ toast = "none"
    /\ netLog = <<>>
    /\ wroteLocal = FALSE
    /\ saved = NothingSaved
    /\ reopened = FALSE

(***************************************************************************)
(* User events                                                             *)
(***************************************************************************)
\* button-edit-profile onClick
Edit ==
    /\ ~showsLoading
    /\ ~isEditing
    /\ isEditing' = TRUE
    /\ reopened' = isPending
    /\ lastOp' = "edit"
    /\ Quiet
    /\ UNCHANGED saved
    /\ UNCHANGED <<isAuthenticated, userId, authLoading, cache, getInFlight,
                   isPending, puts, storage>>
    /\ Commit(profile, fromLocal, FALSE, guestDep)
    /\ prior' = profile'

\* input onChange: setProfile(prev => ({ ...prev, [field]: e.target.value }))
SetField(p, k, v) == [p EXCEPT ![k] = Str(v)]

Update(k, v) ==
    /\ ~showsLoading
    /\ isEditing
    /\ lastOp' = "update"
    /\ Quiet
    /\ UNCHANGED saved
    /\ UNCHANGED <<isAuthenticated, userId, authLoading, cache, getInFlight,
                   isPending, puts, storage, isEditing>>
    /\ Commit(SetField(profile, k, v), fromLocal \ {k}, FALSE, guestDep)
    /\ prior' = profile
    /\ StillReopened

\* button-cancel-edit onClick: setIsEditing(false), profile is not touched
CancelProfile(p) == p

Cancel ==
    /\ ~showsLoading
    /\ isEditing
    /\ isEditing' = FALSE
    /\ reopened' = FALSE
    /\ lastOp' = "cancel"
    /\ Quiet
    /\ UNCHANGED saved
    /\ UNCHANGED <<isAuthenticated, userId, authLoading, cache, getInFlight,
                   isPending, puts, storage>>
    /\ Commit(CancelProfile(profile), fromLocal, FALSE, guestDep)
    /\ prior' = profile'

\* the object literal handed to mutate and to JSON.stringify
FiveFields(p) == [k \in Fields |-> p[k]]

\* handleGuestSave; ok = FALSE when localStorage.setItem throws
HandleGuestSave(ok) ==
    /\ netLog' = <<>>
    /\ UNCHANGED <<isPending, puts>>
    /\ saved' = IF ok THEN [some |-> TRUE, fields |-> profile] ELSE saved
    /\ IF ok
       THEN /\ storage' = Item(JSONStringify(FiveFields(profile)))
            /\ wroteLocal' = TRUE
            /\ isEditing' = FALSE
            /\ toast' = "savedLocal"
       ELSE /\ UNCHANGED <<storage, isEditing>>
            /\ wroteLocal' = FALSE
            /\ toast' = "localSaveError"
    /\ StillReopened

\* updateProfileMutation.mutate: mutationFn throws without userId, else PUT
Mutate ==
    /\ Len(puts) < MaxPuts
    /\ puts' = Append(puts, [uid |-> userId, body |-> FiveFields(profile)])
    /\ isPending' = TRUE
    /\ reopened' = FALSE
    /\ UNCHANGED saved
    /\ netLog' = IF userId = NoId THEN <<>>
                 ELSE <<[method |-> "PUT", uid |-> userId,
                         body |-> FiveFields(profile)]>>
    /\ toast' = "none"
    /\ wroteLocal' = FALSE
    /\ UNCHANGED <<storage, isEditing>>

\* button-save-profile onClick
HandleSave(ok) ==
    /\ ~showsLoading
    /\ isEditing
    /\ ~saveDisabled
    /\ IF isGuestMode THEN HandleGuestSave(ok) ELSE Mutate
    /\ lastOp' = "save"
    /\ UNCHANGED <<isAuthenticated, userId, authLoading, cache, getInFlight>>
    /\ Commit(profile, fromLocal, FALSE, guestDep)
    /\ prior' = profile'

(***************************************************************************)
(* Responses                                                               *)
(***************************************************************************)
Without(q, i) == SubSeq(q, 1, i - 1) \o SubSeq(q, i + 1, Len(q))

\* the observer follows the mutation started last
IsCurrent(q, i) == i = Len(q)

OnSuccessKeepsEditing(editing) == editing

\* onSuccess: setIsEditing(false)
OnSuccessEditing(editing) == FALSE

\* queryClient.invalidateQueries: an active query refetches
Invalidate(a, u, g) == IF QueryEnabled(a, u) /\ u = TheUserId THEN TRUE ELSE g

GetLog(g0, g1, u) ==
    IF g1 /\ ~g0 THEN <<[method |-> "GET", uid |-> u, body |-> NoKeys]>> ELSE <<>>

\* the PUT of puts[i] returns 2xx: onSuccess
MutationSuccess(i) ==
    /\ puts[i].uid # NoId
    /\ puts' = Without(puts, i)
    /\ isPending' = IF IsCurrent(puts, i) THEN FALSE ELSE isPending
    /\ isEditing' = OnSuccessEditing(isEditing)
    /\ getInFlight' = Invalidate(isAuthenticated, userId, getInFlight)
    /\ toast' = "saved"
    /\ netLog' = GetLog(getInFlight, getInFlight', userId)
    /\ wroteLocal' = FALSE
    /\ lastOp' = "mutationSuccess"
    /\ UNCHANGED <<saved, reopened>>
    /\ UNCHANGED <<isAuthenticated, userId, authLoading, cache, storage>>
    /\ Commit(profile, fromLocal, FALSE, guestDep)
    /\ prior' = profile'

OnErrorClosesEditor(editing) == FALSE

\* onError: only a toast, isEditing is not set
OnErrorEditing(editing) == editing

\* the mutation of puts[i] rejects: onError
MutationError(i) ==
    /\ puts' = Without(puts, i)
    /\ isPending' = IF IsCurrent(puts, i) THEN FALSE ELSE isPending
    /\ isEditing' = OnErrorEditing(isEditing)
    /\ toast' = "saveError"
    /\ netLog' = <<>>
    /\ wroteLocal' = FALSE
    /\ lastOp' = "mutationError"
    /\ UNCHANGED <<saved, reopened>>
    /\ UNCHANGED <<isAuthenticated, userId, authLoading, cache, getInFlight,
                   storage>>
    /\ Commit(profile, fromLocal, FALSE, guestDep)
    /\ prior' = profile'

\* the GET returns data r; fresh: the unchanged data arrives as a new object
LoadResolveOk(r, fresh) ==
    /\ getInFlight
    /\ getInFlight' = FALSE
    /\ cache' = r
    /\ lastOp' = "loadOk"
    /\ UNCHANGED saved
    /\ Quiet
    /\ UNCHANGED <<isAuthenticated, userId, authLoading, isPending, puts,
                   storage, isEditing>>
    /\ Commit(profile, fromLocal,
              userId = TheUserId /\ (r # cache \/ fresh), guestDep)
    /\ prior' = profile
    /\ StillReopened

\* the GET fails (retry: false)
LoadResolveErr ==
    /\ getInFlight
    /\ getInFlight' = FALSE
    /\ lastOp' = "loadErr"
    /\ UNCHANGED saved
    /\ Quiet
    /\ UNCHANGED <<isAuthenticated, userId, authLoading, cache, isPending,
                   puts, storage, isEditing>>
    /\ Commit(profile, fromLocal, FALSE, guestDep)
    /\ prior' = profile'
    /\ StillReopened

(***************************************************************************)
(* Session and mount                                                       *)
(***************************************************************************)
\* a query that becomes active fetches when it has no data
StartsFetch(wasActive, a, u, c, g) ==
    IF QueryEnabled(a, u) /\ u = TheUserId /\ ~wasActive /\ c = Undefined
    THEN TRUE ELSE g

\* an active query with data refetches (stale data, window focus)
Refetch ==
    /\ QueryEnabled(isAuthenticated, userId)
    /\ userId = TheUserId
    /\ cache # Undefined
    /\ ~getInFlight
    /\ getInFlight' = TRUE
    /\ lastOp' = "refetch"
    /\ UNCHANGED saved
    /\ toast' = "none"
    /\ wroteLocal' = FALSE
    /\ netLog' = GetLog(getInFlight, getInFlight', userId)
    /\ UNCHANGED <<isAuthenticated, userId, authLoading, cache, isPending,
                   puts, storage, isEditing>>
    /\ Commit(profile, fromLocal, FALSE, guestDep)
    /\ prior' = profile'
    /\ StillReopened

\* useAuth() returns a different session
SessionChange(a, u, l) ==
    /\ <<a, u, l>> # <<isAuthenticated, userId, authLoading>>
    /\ isAuthenticated' = a
    /\ userId' = u
    /\ authLoading' = l
    /\ getInFlight' = StartsFetch(QueryEnabled(isAuthenticated, userId),
                                  a, u, cache, getInFlight)
    /\ lastOp' = "session"
    /\ UNCHANGED saved
    /\ toast' = "none"
    /\ wroteLocal' = FALSE
    /\ netLog' = GetLog(getInFlight, getInFlight', u)
    /\ UNCHANGED <<cache, isPending, puts, storage, isEditing>>
    /\ Commit(profile, fromLocal, UserOf(u, cache) # user, guestDep)
    /\ prior' = profile'
    /\ StillReopened

\* the page is left and entered again: a new component instance, with a new
\* mutation observer; what the old instance had in flight no longer reaches it
Remount ==
    /\ isEditing' = FALSE
    /\ isPending' = FALSE
    /\ puts' = <<>>
    /\ getInFlight' = StartsFetch(FALSE, isAuthenticated, userId, cache,
                                  getInFlight)
    /\ lastOp' = "mount"
    /\ reopened' = FALSE
    /\ UNCHANGED saved
    /\ toast' = "none"
    /\ wroteLocal' = FALSE
    /\ netLog' = GetLog(getInFlight, getInFlight', userId)
    /\ UNCHANGED <<isAuthenticated, userId, authLoading, cache, storage>>
    /\ Commit(DefaultProfile, {}, TRUE, "none")
    /\ prior' = profile'

Next ==
    \/ Edit
    \/ \E in \in Inputs : Update(in[1], in[2])
    \/ Cancel
    \/ \E ok \in BOOLEAN : HandleSave(ok)
    \/ \E i \in 1..Len(puts) : MutationSuccess(i)
    \/ \E i \in 1..Len(puts) : MutationError(i)
    \/ \E r \in RemoteData, fresh \in BOOLEAN : LoadResolveOk(r, fresh)
    \/ LoadResolveErr
    \/ \E a \in BOOLEAN, u \in {NoId, TheUserId}, l \in BOOLEAN :
          SessionChange(a, u, l)
    \/ Refetch
    \/ Remount

Spec == Init /\ [][Next]_vars

(***************************************************************************)
(* Properties                                                              *)
(***************************************************************************)
IssuedPut == \E i \in 1..Len(netLog) : netLog[i].method = "PUT"

\* C1: a click on save dispatches to one backend chosen by the session at
\* that moment: without an authenticated session it issues no request and
\* starts no mutation, and touches storage only through setItem; with an
\* authenticated session and a userId it issues the PUT with the five fields
\* and leaves storage alone; no click does both.
C1_SaveDispatchesToOneBackend ==
    [][lastOp' = "save" =>
        /\ ~isAuthenticated =>
              /\ netLog' = <<>>
              /\ puts' = puts
              /\ (storage' # storage => wroteLocal')
        /\ (isAuthenticated /\ userId # NoId) =>
              /\ netLog' = <<[method |-> "PUT", uid |-> userId, body |-> profile]>>
              /\ Len(puts') = Len(puts) + 1
              /\ storage' = storage
              /\ ~wroteLocal'
        /\ ~(wroteLocal' /\ netLog' # <<>>)]_vars

C1_RemoteSaveIssued ==
    /\ lastOp = "save"
    /\ isAuthenticated
    /\ userId = TheUserId
    /\ IssuedPut
    /\ ~wroteLocal
    /\ storage \in InitialItems

\* C2 (as claimed): an update immediately followed by cancel leaves Viewing
\* with the fields as they were before the update, and writes to no backend.
C2_UpdateThenCancelRestores ==
    [][(lastOp = "update" /\ lastOp' = "cancel") =>
        /\ profile' = prior
        /\ ~isEditing'
        /\ netLog' = <<>>
        /\ storage' = storage]_vars

\* C3: when a remote write of this mount resolves with an error, isEditing
\* and the fields are what they were just before, the error toast is
\* emitted, and the save button is not disabled afterwards.
C3_ErrorKeepsEditingAndFields ==
    [][lastOp' = "mutationError" =>
        /\ isEditing' = isEditing
        /\ profile' = profile
        /\ toast' = "saveError"
        /\ ~SaveDisabled(IsGuestMode(isAuthenticated', userId'), isPending')]_vars

C3_ErrorWhileEditing ==
    /\ lastOp = "mutationError"
    /\ isEditing
    /\ ~isGuestMode
    /\ ~showsLoading
    /\ profile["name"] = Str("Sara")
    /\ toast = "saveError"
    /\ ~saveDisabled

\* C4: once handleGuestSave has stored the fields f, the stored text parses
\* to a record equal to f in all five keys, and every later guest load, on a
\* new mount in particular, leaves the fields equal to f.
C4_LocalRoundTrip ==
    saved.some =>
        /\ storage.present
        /\ JSONParse(storage.text).ok
        /\ \A k \in Fields : JSONParse(storage.text).obj[k] = saved.fields[k]
        /\ (guestLoad = "merged" => \A k \in Fields : profile[k] = saved.fields[k])

C4_SavedNameLoadedOnMount ==
    /\ lastOp = "mount"
    /\ guestLoad = "merged"
    /\ saved.some
    /\ saved.fields = [DefaultProfile EXCEPT !["name"] = Str("Sara")]
    /\ profile = saved.fields

\* the fields a fetched record o stands for: its value where the key is
\* there and is neither null nor empty, the empty string otherwise
Shown(o) ==
    [k \in Fields |-> IF o[k] = Absent \/ o[k] = Null \/ o[k] = Empty
                      THEN Empty ELSE o[k]]

C6_SuccessForcesViewing ==
    [][/\ lastOp' = "mutationSuccess" => (~isEditing' /\ toast' = "saved")
       /\ (lastOp' = "save" /\ wroteLocal') => (~isEditing' /\ toast' = "savedLocal")
       /\ lastOp' = "cancel" => (puts' = puts /\ isPending' = isPending)]_vars

C6_StaleSuccessClosedEditor ==
    /\ lastOp = "mutationSuccess"
    /\ reopened
    /\ ~isEditing
    /\ toast = "saved"

\* C7 (as claimed): at most one remote save is in flight, and while one is
\* the save button is disabled.
C7_DisabledWhileOutstanding ==
    /\ Len(puts) <= 1
    /\ (puts # <<>> => saveDisabled)

\* C7 (amended): at most one remote save of this mount is in flight, the
\* observer is pending exactly while one is, and the save button is disabled
\* while one is unless the session has turned guest.
C7_AtMostOneInFlight ==
    /\ Len(puts) <= 1
    /\ (puts # <<>> <=> isPending)
    /\ ((puts # <<>> /\ ~isGuestMode) => saveDisabled)

C7_OutstandingAndDisabled ==
    /\ Len(puts) = 1
    /\ isEditing
    /\ ~showsLoading
    /\ ~isGuestMode
    /\ saveDisabled

\* C8 (as claimed): no PUT carries a field value that came into the fields
\* from the stored guest profile.
C8_NoLocalValueInPut == IssuedPut => fromLocal = {}

\* C9: a guest load that finds an unparseable item leaves the fields as they
\* were just before it (as the step found them, when the [user] effect did
\* not run in the same commit), leaves isEditing (FALSE on a new mount) and
\* the stored item as they were, and emits no toast.
C9_MalformedIsAbsence ==
    [][guestLoad' = "malformed" =>
        /\ profile' = preGuest'
        /\ (lastOp' # "mount" => isEditing' = isEditing)
        /\ ((lastOp' # "mount" /\ user' = user) => profile' = profile)
        /\ (lastOp' = "mount" => ~isEditing')
        /\ storage' = storage
        /\ toast' = "none"]_vars

C9_MalformedKeepsFields ==
    /\ guestLoad = "malformed"
    /\ lastOp = "session"
    /\ isEditing
    /\ profile["name"] = Str("Omar")
    /\ ~JSONParse(storage.text).ok

\* C10: a remote load that hands the component a new record while Editing
\* replaces all five fields by the record's and leaves Editing, so what was
\* typed and not saved is lost.
C10_LoadOverwritesWhileEditing ==
    [][(lastOp' = "loadOk" /\ isEditing /\ user'.kind = "object" /\ user' # user) =>
        /\ isEditing'
        /\ preGuest' = FromUser(user'.obj)
        /\ (guestLoad' = "none" => profile' = FromUser(user'.obj))]_vars

C10_TypedNameOverwritten ==
    /\ lastOp = "loadOk"
    /\ isEditing
    /\ prior["name"] = Str("Sara")
    /\ profile["name"] = Str("Omar")
    /\ profile = FromUser(user.obj)

====
